---- MODULE Spec2Model ----
(***************************************************************************)
(* A model of illumina_coordinates::parse_sequence_identifier              *)
(* (src/src/lib.rs).  A string is a sequence of characters; a character is *)
(* a one-element TLA+ string, except EAcute, which stands for a character  *)
(* whose UTF-8 encoding is two bytes long.                                 *)
(***************************************************************************)
EXTENDS Integers, Sequences, FiniteSets, TLC

VARIABLES segs, text, result, prefix, suffix, padded

vars == <<segs, text, result, prefix, suffix, padded>>

(***************************************************************************)
(* Characters and strings                                                  *)
(***************************************************************************)

\* a character outside ASCII: U+00E9, two bytes in UTF-8
EAcute == "U+00E9"

\* str::len and str::split_at count bytes
ByteLen(c) == IF c = EAcute THEN 2 ELSE 1

\* the characters char::is_whitespace accepts, among those of the model
WhiteSpace == {" ", "\t", "\n"}

Digit == {"0", "1", "2", "3", "4", "5", "6", "7", "8", "9"}

\* char::to_digit(10) on a decimal digit
DigitVal(c) ==
    CASE c = "0" -> 0 [] c = "1" -> 1 [] c = "2" -> 2 [] c = "3" -> 3
      [] c = "4" -> 4 [] c = "5" -> 5 [] c = "6" -> 6 [] c = "7" -> 7
      [] c = "8" -> 8 [] c = "9" -> 9

U8Max == 255

U16Max == 65535

(***************************************************************************)
(* The library calls parse_sequence_identifier makes                       *)
(***************************************************************************)

RECURSIVE trim_start(_)
trim_start(s) ==
    IF s # <<>> /\ Head(s) \in WhiteSpace THEN trim_start(Tail(s)) ELSE s

RECURSIVE trim_end(_)
trim_end(s) ==
    IF s # <<>> /\ s[Len(s)] \in WhiteSpace
    THEN trim_end(SubSeq(s, 1, Len(s) - 1))
    ELSE s

\* a plausible slip: only the end of the line is trimmed
trim_only_end(s) == trim_end(s)

\* str::trim
trim(s) == trim_end(trim_start(s))

\* str::split(d).collect(): the pieces between the occurrences of d; always
\* at least one piece, and an empty piece wherever two delimiters touch
RECURSIVE split(_, _)
split(s, d) ==
    IF \E i \in 1..Len(s) : s[i] = d
    THEN LET i == CHOOSE i \in 1..Len(s) :
                      s[i] = d /\ \A j \in 1..(i - 1) : s[j] # d
         IN  <<SubSeq(s, 1, i - 1)>> \o split(SubSeq(s, i + 1, Len(s)), d)
    ELSE <<s>>

RECURSIVE byte_len(_)
byte_len(s) == IF s = <<>> THEN 0 ELSE ByteLen(Head(s)) + byte_len(Tail(s))

\* str::is_char_boundary
is_char_boundary(s, mid) ==
    \E i \in 0..Len(s) : byte_len(SubSeq(s, 1, i)) = mid

\* a plausible slip: the second part starts one character early, so that it
\* repeats the last character of the first
split_at_overlapping(s, mid) ==
    IF is_char_boundary(s, mid)
    THEN LET i == CHOOSE i \in 0..Len(s) : byte_len(SubSeq(s, 1, i)) = mid
         IN  [panic |-> FALSE, fst |-> SubSeq(s, 1, i),
              snd |-> SubSeq(s, i, Len(s))]
    ELSE [panic |-> TRUE, fst |-> <<>>, snd |-> <<>>]

\* str::split_at(mid): panics unless mid is a character boundary of s (so also
\* when mid is past the end)
split_at(s, mid) ==
    IF is_char_boundary(s, mid)
    THEN LET i == CHOOSE i \in 0..Len(s) : byte_len(SubSeq(s, 1, i)) = mid
         IN  [panic |-> FALSE, fst |-> SubSeq(s, 1, i),
              snd |-> SubSeq(s, i + 1, Len(s))]
    ELSE [panic |-> TRUE, fst |-> <<>>, snd |-> <<>>]

\* the digit loop of from_str_radix: checked_mul, then checked_add
RECURSIVE accumulate(_, _, _)
accumulate(digits, acc, max) ==
    IF digits = <<>> THEN [ok |-> TRUE, val |-> acc]
    ELSE IF Head(digits) \notin Digit THEN [ok |-> FALSE, val |-> 0]
    ELSE IF acc * 10 > max THEN [ok |-> FALSE, val |-> 0]
    ELSE IF acc * 10 + DigitVal(Head(digits)) > max THEN [ok |-> FALSE, val |-> 0]
    ELSE accumulate(Tail(digits), acc * 10 + DigitVal(Head(digits)), max)

\* str::parse for an unsigned type (from_str_radix, radix 10): an empty string
\* and a lone sign are errors, one leading '+' is skipped, '-' is not a digit
from_str_radix(s, max) ==
    IF s = <<>> THEN [ok |-> FALSE, val |-> 0]
    ELSE IF Len(s) = 1 /\ Head(s) \in {"+", "-"} THEN [ok |-> FALSE, val |-> 0]
    ELSE IF Head(s) = "+" THEN accumulate(Tail(s), 0, max)
    ELSE accumulate(s, 0, max)

parse_u8(s) == from_str_radix(s, U8Max)

parse_u16(s) == from_str_radix(s, U16Max)

(***************************************************************************)
(* parse_sequence_identifier                                               *)
(***************************************************************************)

\* Result<SequenceIdentifier, IlluminaError>; "Panic" is the call aborting
Ok(rec) == [kind |-> "Ok", val |-> <<rec>>]

Err(e) == [kind |-> e, val |-> <<>>]

Panic == [kind |-> "Panic", val |-> <<>>]

Pending == [kind |-> "Pending", val |-> <<>>]

Number(n) == [tag |-> "Number", n |-> n]

Sequence(s) == [tag |-> "Sequence", seq |-> s]

\* a plausible slip: < for !=
wrong_count_lt(v, n) == Len(v) < n

\* halves.len() != 2, left.len() != 7, right.len() != 4
wrong_count(v, n) == Len(v) # n

\* a plausible slip: the wrong variant
HalvesMismatchAsParseError == Err("ParseError")

\* return Err(IlluminaError::SplitError) for the halves
HalvesMismatch == Err("SplitError")

\* a plausible slip: the raw token is dropped
sample_of_drops_token(tok) ==
    IF parse_u8(tok).ok THEN Number(parse_u8(tok).val) ELSE Sequence(<<>>)

\* match right[3].parse::<u8>() { Ok(n) => Number(n), Err(_) => Sequence(..) }
sample_of(tok) ==
    IF parse_u8(tok).ok THEN Number(parse_u8(tok).val) ELSE Sequence(tok)

parse_sequence_identifier(t) ==
    LET halves == split(trim(t), " ") IN
    IF wrong_count(halves, 2) THEN HalvesMismatch ELSE
    LET left == split(halves[1], ":")
        right == split(halves[2], ":")
    IN
    IF wrong_count(left, 7) THEN Err("SplitError") ELSE
    IF wrong_count(right, 4) THEN Err("SplitError") ELSE
    LET id == split_at(left[1], 1) IN
    IF id.panic THEN Panic ELSE
    LET run_count == parse_u16(left[2]) IN
    IF ~run_count.ok THEN Err("ParseError") ELSE
    LET lane == parse_u8(left[4]) IN
    IF ~lane.ok THEN Err("ParseError") ELSE
    LET first == split_at(left[5], 1) IN
    IF first.panic THEN Panic ELSE
    LET second == split_at(first.snd, 1) IN
    IF second.panic THEN Panic ELSE
    LET side == parse_u8(first.fst) IN
    IF ~side.ok THEN Err("ParseError") ELSE
    LET swath == parse_u8(second.fst) IN
    IF ~swath.ok THEN Err("ParseError") ELSE
    LET tile == parse_u8(second.snd) IN
    IF ~tile.ok THEN Err("ParseError") ELSE
    LET x == parse_u16(left[6]) IN
    IF ~x.ok THEN Err("ParseError") ELSE
    LET y == parse_u16(left[7]) IN
    IF ~y.ok THEN Err("ParseError") ELSE
    LET read == parse_u8(right[1]) IN
    IF ~read.ok THEN Err("ParseError") ELSE
    IF right[2] \notin {<<"Y">>, <<"N">>} THEN Err("ParseError") ELSE
    LET control_number == parse_u8(right[3]) IN
    IF ~control_number.ok THEN Err("ParseError") ELSE
    Ok([sequencer_id |-> id.snd,
        run_count |-> run_count.val,
        flow_cell_id |-> left[3],
        lane |-> lane.val,
        side |-> side.val,
        swath |-> swath.val,
        tile |-> tile.val,
        x |-> x.val,
        y |-> y.val,
        read |-> read.val,
        is_filtered |-> (right[2] = <<"Y">>),
        control_number |-> control_number.val,
        sample |-> sample_of(right[4])])

(***************************************************************************)
(* The lines parse_sequence_identifier is applied to.  A line is given by  *)
(* its segments (separated by one space), each a sequence of tokens        *)
(* (separated by colons).  The lines are those of the tests, changed in at *)
(* most a bounded number of places: a token replaced, or the shape of the  *)
(* line changed.                                                           *)
(***************************************************************************)

\* the most tokens or shapes changed in a line given to Parse
MaxDeviations == 2

\* the most tokens or shapes changed in a line given to ParsePadded
PadDeviations == 1

\* the longest whitespace prefix and suffix ParsePadded adds
MaxPad == 1

\* "@M03745:11:000000000-B54L5:1:2108:4127:8949 1:N:0:0"
DefaultTokens ==
    << <<"@", "M", "0", "3", "7", "4", "5">>,
       <<"1", "1">>,
       <<"0", "0", "0", "0", "0", "0", "0", "0", "0", "-", "B", "5", "4", "L", "5">>,
       <<"1">>,
       <<"2", "1", "0", "8">>,
       <<"4", "1", "2", "7">>,
       <<"8", "9", "4", "9">>,
       <<"1">>,
       <<"N">>,
       <<"0">>,
       <<"0">> >>

NTokens == Len(DefaultTokens)

\* what each token may be replaced by
Alternatives ==
    << \* sequencer id, with its sentinel
       { <<>>, <<"@">>, <<"M", "1">>, <<EAcute, "M">>, <<"@", "H", "2">> },
       \* run count
       { <<>>, <<"0">>, <<"0", "0", "7">>, <<"6", "5", "5", "3", "5">>,
         <<"6", "5", "5", "3", "6">>, <<"+", "1", "1">>, <<"-", "1">>,
         <<"1", "x">> },
       \* flow cell id
       { <<>>, <<"B", "5">> },
       \* lane
       { <<>>, <<"2", "5", "5">>, <<"2", "5", "6">>, <<"+", "2">>, <<"a">> },
       \* side, swath and tile
       { <<>>, <<"2">>, <<"2", "1">>, <<"1", "2", "0">>,
         <<"2", "1", "1", "9">>, <<"2", "1", "2", "5", "5">>,
         <<"2", "1", "2", "5", "6">>, <<"2", "1", "+", "8">>,
         <<"2", "+", "0", "8">>, <<"x", "1", "0", "8">>,
         <<EAcute, "1", "0", "8">>, <<"2", EAcute, "8">> },
       \* x
       { <<>>, <<"6", "5", "5", "3", "5">>, <<"6", "5", "5", "3", "6">>,
         <<"+", "4">>, <<"4", "a">> },
       \* y
       { <<>>, <<"0">>, <<"7", "0", "0", "0", "0">>, <<"-", "1">> },
       \* read
       { <<>>, <<"2">>, <<"2", "5", "6">>, <<"+", "1">>, <<"r">> },
       \* filter flag
       { <<"Y">>, <<"y">>, <<"n">>, <<>>, <<"Y", "N">>, <<"1">> },
       \* control number
       { <<>>, <<"1", "8">>, <<"2", "5", "6">>, <<"+", "0">>, <<"c">> },
       \* sample
       { <<>>, <<"2", "5", "5">>, <<"2", "5", "6">>, <<"0", "1", "2">>,
         <<"A", "C", "G", "T">>, <<"+", "5">>, <<"-", "5">>, <<"+">> } >>

\* the token lists with at most k of the tokens from p on replaced
RECURSIVE TokenLists(_, _)
TokenLists(p, k) ==
    IF p > NTokens THEN { <<>> }
    ELSE { <<DefaultTokens[p]>> \o r : r \in TokenLists(p + 1, k) }
         \cup (IF k > 0
               THEN { <<a>> \o r : a \in Alternatives[p],
                                   r \in TokenLists(p + 1, k - 1) }
               ELSE {})

Left(toks) == SubSeq(toks, 1, 7)

Right(toks) == SubSeq(toks, 8, 11)

\* the shapes a line is given other than '<left> <right>'
OtherShapes ==
    { "coordinates", "third", "gap", "left6", "left8", "right3", "right5",
      "bases", "empty" }

Shaped(toks, shape) ==
    CASE shape = "full" -> <<Left(toks), Right(toks)>>
      [] shape = "coordinates" -> <<Left(toks)>>
      [] shape = "third" -> <<Left(toks), Right(toks), << <<"0">> >> >>
      [] shape = "gap" -> <<Left(toks), << <<>> >>, Right(toks)>>
      [] shape = "left6" -> <<SubSeq(toks, 1, 6), Right(toks)>>
      [] shape = "left8" -> <<Left(toks) \o << <<"7">> >>, Right(toks)>>
      [] shape = "right3" -> <<Left(toks), SubSeq(toks, 8, 10)>>
      [] shape = "right5" -> <<Left(toks), Right(toks) \o << <<"A">> >> >>
      [] shape = "bases" -> << << <<"C", "A", "C", "G", "A", "C", "G">> >> >>
      [] shape = "empty" -> << << <<>> >> >>

\* the lines with at most k deviations
Lines(k) ==
    { Shaped(toks, "full") : toks \in TokenLists(1, k) }
    \cup (IF k > 0
          THEN { Shaped(toks, sh) : toks \in TokenLists(1, k - 1),
                                    sh \in OtherShapes }
          ELSE {})

RECURSIVE Join(_, _)
Join(strs, d) ==
    IF Len(strs) = 0 THEN <<>>
    ELSE IF Len(strs) = 1 THEN strs[1]
    ELSE strs[1] \o <<d>> \o Join(Tail(strs), d)

\* the text of a line
TextOf(ss) == Join([i \in 1..Len(ss) |-> Join(ss[i], ":")], " ")

\* the whitespace strings of length n
RECURSIVE PadsOfLen(_)
PadsOfLen(n) ==
    IF n = 0 THEN { <<>> }
    ELSE { <<c>> \o p : c \in WhiteSpace, p \in PadsOfLen(n - 1) }

Pads == UNION { PadsOfLen(n) : n \in 0..MaxPad }

(***************************************************************************)
(* The state machine: a line is chosen, then parsed; the same line is also *)
(* parsed with whitespace around it.                                       *)
(***************************************************************************)

InitWith(k) ==
    /\ segs \in Lines(k)
    /\ text = TextOf(segs)
    /\ result = Pending
    /\ prefix = <<>>
    /\ suffix = <<>>
    /\ padded = Pending

Init == InitWith(MaxDeviations)

InitPad == InitWith(PadDeviations)

\* parse_sequence_identifier(&line)
Parse ==
    /\ result = Pending
    /\ result' = parse_sequence_identifier(text)
    /\ UNCHANGED <<segs, text, prefix, suffix, padded>>

\* parse_sequence_identifier of the line with whitespace before and after it
ParsePadded ==
    /\ result # Pending
    /\ padded = Pending
    /\ \E p \in Pads, s \in Pads :
          /\ prefix' = p
          /\ suffix' = s
          /\ padded' = parse_sequence_identifier(p \o text \o s)
    /\ UNCHANGED <<segs, text, result>>

Next == Parse

NextPad == Parse \/ ParsePadded

Spec == Init /\ [][Next]_vars

SpecPad == InitPad /\ [][NextPad]_vars

(***************************************************************************)
(* What the claims speak of: the line as it was written (segs), not as the *)
(* parser splits it.                                                       *)
(***************************************************************************)

Done == result # Pending

\* the record returned, when one is
Rec == result.val[1]

\* two halves, seven tokens on the left and four on the right
RightCounts == Len(segs) = 2 /\ Len(segs[1]) = 7 /\ Len(segs[2]) = 4

AllDigits(tok) == tok # <<>> /\ \A i \in 1..Len(tok) : tok[i] \in Digit

HasNonDigit(tok) == \E i \in 1..Len(tok) : tok[i] \notin Digit

\* the number a string of decimal digits denotes
RECURSIVE DecVal(_)
DecVal(tok) ==
    IF tok = <<>> THEN 0
    ELSE 10 * DecVal(SubSeq(tok, 1, Len(tok) - 1)) + DigitVal(tok[Len(tok)])

InRange(tok, max) == AllDigits(tok) /\ DecVal(tok) <= max

\* a token no integer field of the given width accepts, by the specification:
\* one with a character that is no digit, or a number above the maximum
BadInteger(tok, max) == HasNonDigit(tok) \/ (AllDigits(tok) /\ DecVal(tok) > max)

\* the part of the compound token after the side and the swath
TilePart(tok) == IF Len(tok) >= 3 THEN SubSeq(tok, 3, Len(tok)) ELSE <<>>

\* a left half of the grammar: the sentinel, then digits within their widths
LeftValid(l) ==
    /\ l[1] # <<>> /\ l[1][1] = "@"
    /\ InRange(l[2], 65535)
    /\ InRange(l[4], 255)
    /\ Len(l[5]) >= 3 /\ AllDigits(l[5]) /\ DecVal(TilePart(l[5])) <= 255
    /\ InRange(l[6], 65535)
    /\ InRange(l[7], 65535)

\* the first nine fields of a record are those the left half encodes
LeftFields(rec, l) ==
    /\ rec.sequencer_id = Tail(l[1])
    /\ rec.run_count = DecVal(l[2])
    /\ rec.flow_cell_id = l[3]
    /\ rec.lane = DecVal(l[4])
    /\ rec.side = DigitVal(l[5][1]) /\ rec.side \in 0..9
    /\ rec.swath = DigitVal(l[5][2]) /\ rec.swath \in 0..9
    /\ rec.tile = DecVal(TilePart(l[5]))
    /\ rec.x = DecVal(l[6])
    /\ rec.y = DecVal(l[7])

\* a well-formed full-format line; the sample token is free
WellFormed ==
    /\ RightCounts
    /\ LeftValid(segs[1])
    /\ InRange(segs[2][1], 255)
    /\ segs[2][2] \in { <<"Y">>, <<"N">> }
    /\ InRange(segs[2][3], 255)

\* the left half alone, well formed
CoordinatesOnly == Len(segs) = 1 /\ Len(segs[1]) = 7 /\ LeftValid(segs[1])

\* a token an unsigned 8-bit parse accepts: digits, after at most one '+',
\* denoting at most 255
IsU8Text(tok) ==
    IF tok # <<>> /\ tok[1] = "+" THEN InRange(Tail(tok), 255) ELSE InRange(tok, 255)

U8TextVal(tok) == IF tok[1] = "+" THEN DecVal(Tail(tok)) ELSE DecVal(tok)

(***************************************************************************)
(* The claims                                                              *)
(***************************************************************************)

\* C1: parse_sequence_identifier is total: on every text the call returns
\* Ok(record), Err(SplitError) or Err(ParseError), and never aborts.
C1_Total == result.kind \in {"Pending", "Ok", "SplitError", "ParseError"}

\* C2: every well-formed full-format line parses, and each field of the record
\* is what the line encodes: sequencer_id is token 0 without its first
\* character, the integer fields are the values of their tokens, flow_cell_id
\* is token 2, side and swath are the first two digits of the compound token
\* and tile the value of the rest, is_filtered is true for Y and false for N.
C2_WellFormedParses ==
    (Done /\ WellFormed) =>
        /\ result.kind = "Ok"
        /\ LeftFields(Rec, segs[1])
        /\ Rec.read = DecVal(segs[2][1])
        /\ Rec.is_filtered = (segs[2][2] = <<"Y">>)
        /\ Rec.control_number = DecVal(segs[2][3])

C2_Witness ==
    /\ Done /\ WellFormed
    /\ result.kind = "Ok"
    /\ segs[1][5] = <<"2", "1", "2", "5", "5">> /\ Rec.tile = 255
    /\ Rec.is_filtered

\* C3: a line that has not two halves of seven and four tokens is answered
\* with SplitError, whatever its tokens hold: never ParseError, never a record.
C3_ShapeIsSplitError == (Done /\ ~RightCounts) => result = Err("SplitError")

C3_Witness ==
    /\ Done
    /\ Len(segs) = 2 /\ Len(segs[1]) = 7 /\ Len(segs[2]) = 5
    /\ segs[1][1] = <<>>
    /\ result = Err("SplitError")

\* C4: whitespace before and after a text does not change the outcome of
\* parsing it.
C4_PaddingIgnored == (padded # Pending) => padded = result

C4_Witness ==
    /\ padded.kind = "Ok"
    /\ prefix = <<"\t">>
    /\ suffix = <<"\n">>

\* C5: a line with the right counts whose filter flag is neither Y nor N is
\* answered with ParseError.
C5_FilterIsParseError ==
    (Done /\ RightCounts /\ segs[2][2] \notin { <<"Y">>, <<"N">> })
        => result = Err("ParseError")

\* C6: with the other ten tokens valid, every sample token is accepted: the
\* sample is Number(n) when the token parses as an unsigned 8-bit integer n,
\* and otherwise Sequence of the token as written.
C6_SampleNeverFails ==
    (Done /\ WellFormed) =>
        /\ result.kind = "Ok"
        /\ Rec.sample = IF IsU8Text(segs[2][4])
                        THEN Number(U8TextVal(segs[2][4]))
                        ELSE Sequence(segs[2][4])

C6_Witness ==
    /\ Done /\ WellFormed
    /\ segs[2][4] = <<"2", "5", "6">>
    /\ result.kind = "Ok"
    /\ Rec.sample = Sequence(<<"2", "5", "6">>)

\* C7 as written: a line that is the left half alone parses, with the first
\* nine fields of the full-format line.
C7_CoordinatesAccepted ==
    (Done /\ CoordinatesOnly) => (result.kind = "Ok" /\ LeftFields(Rec, segs[1]))

\* C7 as amended: a line that is the left half alone, however well formed, is
\* answered with SplitError and no record.
C7_CoordinatesRejected == (Done /\ CoordinatesOnly) => result = Err("SplitError")

C7_Witness ==
    /\ Done /\ CoordinatesOnly
    /\ segs[1][5] = <<"2", "1", "0", "8">>
    /\ result = Err("SplitError")

\* C8: the integer fields accept decimal digits only, within their width; in
\* the claim's second wording: whenever a record is returned, run_count, lane,
\* x, y, read, control_number and the tile part of the line each held nothing
\* but decimal digits and a number within the field's maximum.
C8_DigitsOnly ==
    (Done /\ RightCounts /\ result.kind = "Ok") =>
        /\ ~BadInteger(segs[1][2], 65535)
        /\ ~BadInteger(segs[1][4], 255)
        /\ ~BadInteger(TilePart(segs[1][5]), 255)
        /\ ~BadInteger(segs[1][6], 65535)
        /\ ~BadInteger(segs[1][7], 65535)
        /\ ~BadInteger(segs[2][1], 255)
        /\ ~BadInteger(segs[2][3], 255)

\* C9: a line with the right counts in which an integer token is empty
\* (run_count, lane, x, y, read, control_number, or a compound token too short
\* to hold side, swath and tile) is answered with ParseError.
C9_EmptyIsParseError ==
    (/\ Done /\ RightCounts
     /\ \/ \E i \in {2, 4, 6, 7} : segs[1][i] = <<>>
        \/ \E i \in {1, 3} : segs[2][i] = <<>>
        \/ Len(segs[1][5]) <= 2)
        => result = Err("ParseError")

\* C10: every record returned has a sequencer_id that is not empty.
C10_SequencerIdNonEmpty == (result.kind = "Ok") => Rec.sequencer_id # <<>>

====
